---------------------------- MODULE Spec2Model ----------------------------
(***************************************************************************)
(* A model of lite-Biws (src/main.py): the keyword-combination generator,  *)
(* the retrying fetcher, the result-page and target-page extractors, the   *)
(* crawl loop and the export.  Strings are TLA+ strings, handled character *)
(* by character with Len, Head, Tail, SubSeq and \o.                       *)
(***************************************************************************)
EXTENDS Integers, Sequences, FiniteSets, TLC

VARIABLES
    base_keywords,    \* config.base_keywords
    query_char,       \* config.query_char
    max_retries,      \* config.max_retries
    scraped_urls,     \* self.scraped_urls: the set of visited URLs
    all_urls,         \* self.all_urls: one URL list per recorded query
    used_keywords,    \* self.used_keywords: the keyword pool
    search_keywords,  \* local of scrape_search_results: the combinations
    qi,               \* position of the for loop over search_keywords
    urls,             \* local: the URL list of the current query
    ui,               \* position of the for loop over urls
    caller,           \* which call site make_request was entered from
    retries,          \* parameter `retries` of the running make_request
    response,         \* what the last make_request call returned
    keywords,         \* result of the last extract_meta_keywords call
    results,          \* the dict built by export_results
    outfile,          \* content of config.output_file
    pc,               \* control point of run()
    trace,            \* history: GETs and sleeps of the running fetch
    fetchLog,         \* history: URLs whose target-page fetch was started
    doneOk,           \* history: loop iterations finished after a good search
    atCancel          \* history: the crawl state when KeyboardInterrupt came

vars == <<base_keywords, query_char, max_retries, scraped_urls, all_urls,
          used_keywords, search_keywords, qi, urls, ui, caller, retries,
          response, keywords, results, outfile, pc, trace, fetchLog, doneOk,
          atCancel>>

None == "<None>"

\* export_results has not built its dict yet
NoResults == <<>>

\* config.output_file has not been written: otherwise <<the dict dumped>>
NoFile == <<>>

\* make_request returns None, or a response whose text is a page
NoResponse == [ok |-> FALSE, text |-> <<>>]

Response(page) == [ok |-> TRUE, text |-> page]

\* nothing recorded: KeyboardInterrupt has not been raised
NotCancelled ==
    [cancelled |-> FALSE, betweenQueries |-> FALSE, all_urls |-> <<>>,
     scraped_urls |-> {}, used_keywords |-> <<>>, doneOk |-> 0]

-----------------------------------------------------------------------------
(* Bounds of the model.                                                    *)

MaxKw == 3          \* longest base keyword list of the generator's check
MaxRetry == 2       \* largest config.max_retries
MaxAnchors == 2     \* most <a> elements of a result page
MaxTags == 2        \* most <meta> elements of a target page
MaxPool == 3        \* longest keyword pool of the export's check

-----------------------------------------------------------------------------
(* Python's str and list operations.                                       *)

RECURSIVE Pow2(_)
Pow2(k) == IF k = 0 THEN 1 ELSE 2 * Pow2(k - 1)

Range(s) == {s[i] : i \in 1..Len(s)}

RECURSIVE Sum(_)
Sum(s) == IF s = <<>> THEN 0 ELSE Head(s) + Sum(Tail(s))

RECURSIVE Flatten(_)
Flatten(ss) == IF ss = <<>> THEN <<>> ELSE Head(ss) \o Flatten(Tail(ss))

\* s.startswith(p)
StartsWith(s, p) == Len(p) <= Len(s) /\ SubSeq(s, 1, Len(p)) = p

\* s.find(sub), 1-based; 0 when sub does not occur
Find(s, sub) ==
    LET hits == {i \in 1..(Len(s) - Len(sub) + 1) :
                    SubSeq(s, i, i + Len(sub) - 1) = sub}
    IN  IF hits = {} THEN 0 ELSE CHOOSE i \in hits : \A j \in hits : i <= j

\* sub in s
Contains(s, sub) == Find(s, sub) # 0

\* s[i:] with a 1-based i
From(s, i) == SubSeq(s, i, Len(s))

UpperCase == "ABCDEFGHIJKLMNOPQRSTUVWXYZ"

LowerCase == "abcdefghijklmnopqrstuvwxyz"

Chars(s) == {SubSeq(s, i, i) : i \in 1..Len(s)}

LowerChar(c) ==
    LET i == Find(UpperCase, c)
    IN  IF i # 0 THEN SubSeq(LowerCase, i, i) ELSE c

\* s.lower()
RECURSIVE Lower(_)
Lower(s) == IF s = "" THEN "" ELSE LowerChar(Head(s)) \o Lower(Tail(s))

\* s.strip(): blanks removed at both ends
RECURSIVE LStrip(_)
LStrip(s) == IF s # "" /\ Head(s) = " " THEN LStrip(Tail(s)) ELSE s

RECURSIVE RStrip(_)
RStrip(s) ==
    IF s # "" /\ SubSeq(s, Len(s), Len(s)) = " "
    THEN RStrip(SubSeq(s, 1, Len(s) - 1)) ELSE s

Strip(s) == LStrip(RStrip(s))

\* s.split(d) for a one-character d: every piece, empty ones included
RECURSIVE Split(_, _)
Split(s, d) ==
    LET i == Find(s, d)
    IN  IF i = 0 THEN <<s>>
        ELSE <<SubSeq(s, 1, i - 1)>> \o Split(From(s, i + 1), d)

\* sep.join(parts)
RECURSIVE Join(_, _)
Join(sep, parts) ==
    IF parts = <<>> THEN ""
    ELSE IF Len(parts) = 1 THEN parts[1]
    ELSE parts[1] \o sep \o Join(sep, Tail(parts))

SeqsUpTo(S, n) == UNION {[1..k -> S] : k \in 0..n}

-----------------------------------------------------------------------------
(* generate_keyword_combinations, with itertools.combinations as CPython   *)
(* computes it: index tuples, the rightmost index that can still grow is   *)
(* incremented and the ones after it reset.                                *)

\* the rightmost position whose index is not at its maximum, 0 when none
Pivot(idx, n, r) ==
    LET free == {i \in 1..r : idx[i] # i + n - r}
    IN  IF free = {} THEN 0 ELSE CHOOSE i \in free : \A j \in free : j <= i

NextIndices(idx, n, r) ==
    LET i == Pivot(idx, n, r)
    IN  [j \in 1..r |-> IF j < i THEN idx[j] ELSE idx[i] + 1 + (j - i)]

RECURSIVE IndicesFrom(_, _, _)
IndicesFrom(idx, n, r) ==
    IF Pivot(idx, n, r) = 0 THEN <<idx>>
    ELSE <<idx>> \o IndicesFrom(NextIndices(idx, n, r), n, r)

PrefixEveryTime(pool, r) ==
    LET all == IndicesFrom([i \in 1..r |-> i], Len(pool), r)
    IN  [p \in 1..Len(all) |-> [i \in 1..r |-> pool[i]]]

\* itertools.combinations(pool, r), for 1 <= r <= len(pool)
combinations(pool, r) ==
    LET all == IndicesFrom([i \in 1..r |-> i], Len(pool), r)
    IN  [p \in 1..Len(all) |-> [i \in 1..r |-> pool[all[p][i]]]]

JoinUnordered(sep, combo) ==
    Join(sep, [i \in 1..Len(combo) |-> combo[Len(combo) + 1 - i]])

JoinCombo(sep, combo) == Join(sep, combo)

RECURSIVE CombinationsOfSizes(_, _, _, _)
CombinationsOfSizes(kws, sep, r, last) ==
    IF r > last THEN <<>>
    ELSE LET cs == combinations(kws, r)
         IN  [p \in 1..Len(cs) |-> JoinCombo(sep, cs[p])]
             \o CombinationsOfSizes(kws, sep, r + 1, last)

ThroughFullSize(kws, sep) == CombinationsOfSizes(kws, sep, 1, Len(kws))

\* for r in range(1, len(keywords)): sizes 1 .. n-1
generate_keyword_combinations(kws, sep) ==
    CombinationsOfSizes(kws, sep, 1, Len(kws) - 1)

-----------------------------------------------------------------------------
(* urllib.parse.urlparse, as far as is_valid_url reads its result: the     *)
(* scheme is the text before the first ':' when that text is a letter      *)
(* followed by scheme characters, lower-cased; the netloc is what follows  *)
(* a leading '//' up to the first '/', '?' or '#'.                         *)

Letters == Chars(LowerCase) \cup Chars(UpperCase)

SchemeChars == Letters \cup Chars("0123456789+-.")

IsScheme(s) ==
    /\ s # ""
    /\ Head(s) \in Letters
    /\ \A i \in 1..Len(s) : SubSeq(s, i, i) \in SchemeChars

\* the first position of one of the characters of cs at or after i, else Len+1
FirstOf(s, cs, i) ==
    LET hits == {j \in i..Len(s) : SubSeq(s, j, j) \in cs}
    IN  IF hits = {} THEN Len(s) + 1 ELSE CHOOSE j \in hits : \A k \in hits : j <= k

urlparse(url) ==
    LET i      == Find(url, ":")
        hasSch == i > 1 /\ IsScheme(SubSeq(url, 1, i - 1))
        scheme == IF hasSch THEN Lower(SubSeq(url, 1, i - 1)) ELSE ""
        rest   == IF hasSch THEN From(url, i + 1) ELSE url
        netloc == IF StartsWith(rest, "//")
                  THEN SubSeq(rest, 3, FirstOf(rest, {"/", "?", "#"}, 3) - 1)
                  ELSE ""
    IN  [scheme |-> scheme, netloc |-> netloc]

\* the last position of character c in s, 0 when absent
LastIndex(s, c) ==
    LET hits == {j \in 1..Len(s) : SubSeq(s, j, j) = c}
    IN  IF hits = {} THEN 0 ELSE CHOOSE j \in hits : \A k \in hits : k <= j

\* ParseResult.hostname: the netloc without user info and port, lower-cased
hostname(url) ==
    LET netloc   == urlparse(url).netloc
        hostport == From(netloc, LastIndex(netloc, "@") + 1)
    IN  Lower(SubSeq(hostport, 1, FirstOf(hostport, {":"}, 1) - 1))

\* parsed.netloc.lower()
NetlocLower(netloc) == Lower(netloc)

is_valid_url(url) ==
    LET parsed == urlparse(url)
    IN  /\ parsed.scheme \in {"http", "https"}
        /\ parsed.netloc # ""
        /\ ~Contains(NetlocLower(parsed.netloc), "google.com")
        /\ ~Contains(NetlocLower(parsed.netloc), "googleusercontent.com")

-----------------------------------------------------------------------------
(* extract_google_urls.  A result page is the sequence of its <a>          *)
(* elements in document order: the href attribute (None when missing) and  *)
(* whether the element lies inside a .yuRUbf block or inside an <h3>.      *)

Selectors == <<"a[href^=/url?q=]", "a[href^=http]", ".yuRUbf a", "h3 a">>

Matches(a, selector) ==
    CASE selector = "a[href^=/url?q=]" -> a.href # None /\ StartsWith(a.href, "/url?q=")
      [] selector = "a[href^=http]"    -> a.href # None /\ StartsWith(a.href, "http")
      [] selector = ".yuRUbf a"        -> a.yuRUbf
      [] selector = "h3 a"             -> a.h3

\* soup.select(selector): the matching elements in document order
RECURSIVE Select(_, _)
Select(page, selector) ==
    IF page = <<>> THEN <<>>
    ELSE (IF Matches(Head(page), selector) THEN <<Head(page)>> ELSE <<>>)
         \o Select(Tail(page), selector)

\* the body of the inner loop: what one link adds to `urls`
Candidate(link) ==
    LET href == IF link.href = None THEN "" ELSE link.href
    IN  IF StartsWith(href, "/url?q=")
        THEN LET actual == From(href, 8)
                 cut    == Find(actual, "&sa=")
             IN  <<IF cut # 0 THEN SubSeq(actual, 1, cut - 1) ELSE actual>>
        ELSE IF StartsWith(href, "http") /\ ~Contains(href, "google.com")
        THEN <<href>>
        ELSE <<>>

RECURSIVE Candidates(_)
Candidates(links) ==
    IF links = <<>> THEN <<>>
    ELSE Candidate(Head(links)) \o Candidates(Tail(links))

RECURSIVE AllCandidates(_, _)
AllCandidates(page, k) ==
    IF k > Len(Selectors) THEN <<>>
    ELSE Candidates(Select(page, Selectors[k])) \o AllCandidates(page, k + 1)

RECURSIVE KeepDuplicates(_, _)
KeepDuplicates(cands, seen) ==
    IF cands = <<>> THEN <<>>
    ELSE (IF is_valid_url(Head(cands)) THEN <<Head(cands)>> ELSE <<>>)
         \o KeepDuplicates(Tail(cands), seen)

\* the final loop: first occurrences of the valid candidates
RECURSIVE UniqueValid(_, _)
UniqueValid(cands, seen) ==
    IF cands = <<>> THEN <<>>
    ELSE IF Head(cands) \notin seen /\ is_valid_url(Head(cands))
    THEN <<Head(cands)>> \o UniqueValid(Tail(cands), seen \cup {Head(cands)})
    ELSE UniqueValid(Tail(cands), seen)

extract_google_urls(page) == UniqueValid(AllCandidates(page, 1), {})

-----------------------------------------------------------------------------
(* extract_meta_keywords.  A target page is the sequence of its <meta>     *)
(* elements in document order: the name, property and content attributes   *)
(* (None when missing).                                                    *)

MetaSelectors == <<[attr |-> "name",     value |-> "keywords"],
                   [attr |-> "name",     value |-> "Keywords"],
                   [attr |-> "property", value |-> "keywords"],
                   [attr |-> "name",     value |-> "description"]>>

RECURSIVE SelectMeta(_, _)
SelectMeta(page, sel) ==
    IF page = <<>> THEN <<>>
    ELSE (IF Head(page)[sel.attr] = sel.value THEN <<Head(page)>> ELSE <<>>)
         \o SelectMeta(Tail(page), sel)

Delimiters == <<",", ";", "|">>

StripAll(pieces) == [i \in 1..Len(pieces) |-> Strip(pieces[i])]

RECURSIVE SplitAtEvery(_, _)
SplitAtEvery(pieces, k) ==
    IF k > Len(Delimiters) THEN pieces
    ELSE SplitAtEvery(
            Flatten([i \in 1..Len(pieces) |-> Split(pieces[i], Delimiters[k])]),
            k + 1)

SplitAtEveryDelimiter(content) == StripAll(SplitAtEvery(<<content>>, 1))

\* the for/else over the delimiters: split at the first one that occurs
SplitContent(content) ==
    LET found == {k \in 1..Len(Delimiters) : Contains(content, Delimiters[k])}
    IN  IF found = {} THEN <<content>>
        ELSE LET k == CHOOSE k \in found : \A j \in found : k <= j
             IN  StripAll(Split(content, Delimiters[k]))

\* what one tag adds to `keywords`
TagKeywords(tag) ==
    LET content == Strip(IF tag.content = None THEN "" ELSE tag.content)
    IN  IF content # "" THEN SplitContent(content) ELSE <<>>

RECURSIVE TagsKeywords(_)
TagsKeywords(tags) ==
    IF tags = <<>> THEN <<>>
    ELSE TagKeywords(Head(tags)) \o TagsKeywords(Tail(tags))

RECURSIVE AllTagKeywords(_, _)
AllTagKeywords(page, k) ==
    IF k > Len(MetaSelectors) THEN <<>>
    ELSE TagsKeywords(SelectMeta(page, MetaSelectors[k]))
         \o AllTagKeywords(page, k + 1)

\* the returned comprehension: tokens that are not blank
NonBlank(kws) ==
    LET RECURSIVE keep(_)
        keep(s) == IF s = <<>> THEN <<>>
                   ELSE (IF Head(s) # "" /\ Len(Strip(Head(s))) > 0
                         THEN <<Head(s)>> ELSE <<>>) \o keep(Tail(s))
    IN  keep(kws)

extract_meta_keywords(page) == NonBlank(AllTagKeywords(page, 1))

-----------------------------------------------------------------------------
(* get_statistics and export_results.                                      *)

\* len(set(self.used_keywords))
CountUniqueKeywords(pool) == Cardinality(Range(pool))

get_statistics(au, su, uk) ==
    [total_search_queries     |-> Len(au),
     total_urls_found         |-> Sum([i \in 1..Len(au) |-> Len(au[i])]),
     unique_urls_scraped      |-> Cardinality(su),
     total_keywords_extracted |-> Len(uk),
     unique_keywords          |-> CountUniqueKeywords(uk)]

KeyExact(keyword) == keyword

\* the key a keyword is remembered under in seen_keywords
SeenKey(keyword) == Lower(keyword)

\* the loop over self.used_keywords at the head of export_results
RECURSIVE UniqueKeywords(_, _)
UniqueKeywords(pool, seen) ==
    IF pool = <<>> THEN <<>>
    ELSE IF SeenKey(Head(pool)) \notin seen
    THEN <<Head(pool)>>
         \o UniqueKeywords(Tail(pool), seen \cup {SeenKey(Head(pool))})
    ELSE UniqueKeywords(Tail(pool), seen)

\* list(s) of a set: some order of its elements
Orders(S) ==
    {o \in [1..Cardinality(S) -> S] : \A i, j \in DOMAIN o : i # j => o[i] # o[j]}

\* the dict `results`, without its time stamp
BuildResults(order) ==
    LET unique == UniqueKeywords(used_keywords, {})
    IN  [base_keywords   |-> base_keywords,
         statistics      |-> get_statistics(all_urls, scraped_urls, used_keywords),
         urls_by_query   |-> all_urls,
         all_unique_urls |-> order,
         keywords        |-> unique,
         keyword_count   |-> Len(unique)]

-----------------------------------------------------------------------------
(* The inputs of a run.                                                    *)

Anchor(h) == [href |-> h, yuRUbf |-> FALSE, h3 |-> FALSE]

Meta(n, c) == [name |-> n, property |-> None, content |-> c]

\* result pages the search engine may answer with
SearchPages ==
    { <<>>,
      <<Anchor("/url?q=http://x.io/&sa=U")>>,
      <<Anchor("http://x.io/"), Anchor("https://www.google.com/maps"),
        Anchor("https://y.io/a")>> }

\* pages the target sites may answer with
TargetPages ==
    { <<>>,
      <<Meta("keywords", "Go, go")>> }

BaseKeywordLists == { <<"a", "b">>, <<"a", "b", "c">> }

CrawlPcs == {"start", "loop", "request", "get", "pace", "backoff", "ret",
             "urls", "export"}

Fresh ==
    /\ scraped_urls = {}
    /\ all_urls = <<>>
    /\ used_keywords = <<>>
    /\ search_keywords = <<>>
    /\ qi = 0
    /\ urls = <<>>
    /\ ui = 0
    /\ caller = None
    /\ retries = 0
    /\ response = NoResponse
    /\ keywords = <<>>
    /\ results = NoResults
    /\ outfile = NoFile
    /\ trace = <<>>
    /\ fetchLog = <<>>
    /\ doneOk = 0
    /\ atCancel = NotCancelled

\* LiteBiws.__init__ followed by the call of run()
Init ==
    /\ base_keywords \in BaseKeywordLists
    /\ query_char = "+"
    /\ max_retries \in 0..MaxRetry
    /\ pc = "start"
    /\ Fresh

-----------------------------------------------------------------------------
(* make_request: the recursion on `retries` as a loop.                     *)

ExhaustedLate(r) == r > max_retries

\* retries >= self.config.max_retries
Exhausted(r) == r >= max_retries

BackoffLinear(r) == 2 * r

\* 2 ** retries
BackoffDelay(r) == Pow2(r)

\* entering make_request(url) from a call site
Call(site) ==
    /\ caller' = site
    /\ retries' = 0
    /\ trace' = <<>>
    /\ pc' = "request"

\* if retries >= self.config.max_retries: return None
RequestCheck ==
    /\ pc = "request"
    /\ IF Exhausted(retries)
       THEN response' = NoResponse /\ pc' = "ret"
       ELSE response' = response /\ pc' = "get"
    /\ UNCHANGED <<base_keywords, query_char, max_retries, scraped_urls,
                   all_urls, used_keywords, search_keywords, qi, urls, ui,
                   caller, retries, keywords, results, outfile, trace,
                   fetchLog, doneOk, atCancel>>

\* session.get and raise_for_status succeed: the response holds `page`
GetOk ==
    /\ pc = "get"
    /\ \E page \in (IF caller = "search" THEN SearchPages ELSE TargetPages) :
          response' = Response(page)
    /\ trace' = Append(trace, <<"GET", retries>>)
    /\ pc' = "pace"
    /\ UNCHANGED <<base_keywords, query_char, max_retries, scraped_urls,
                   all_urls, used_keywords, search_keywords, qi, urls, ui,
                   caller, retries, keywords, results, outfile, fetchLog,
                   doneOk, atCancel>>

\* session.get or raise_for_status raises a RequestException
GetFail ==
    /\ pc = "get"
    /\ trace' = Append(trace, <<"GET", retries>>)
    /\ pc' = "backoff"
    /\ UNCHANGED <<base_keywords, query_char, max_retries, scraped_urls,
                   all_urls, used_keywords, search_keywords, qi, urls, ui,
                   caller, retries, response, keywords, results, outfile,
                   fetchLog, doneOk, atCancel>>

ReturnWithoutPacing ==
    /\ pc = "pace"
    /\ pc' = "ret"
    /\ UNCHANGED <<base_keywords, query_char, max_retries, scraped_urls,
                   all_urls, used_keywords, search_keywords, qi, urls, ui,
                   caller, retries, response, keywords, results, outfile,
                   trace, fetchLog, doneOk, atCancel>>

\* time.sleep(self.config.request_delay); return response
Pace ==
    /\ pc = "pace"
    /\ trace' = Append(trace, <<"pace", 1>>)
    /\ pc' = "ret"
    /\ UNCHANGED <<base_keywords, query_char, max_retries, scraped_urls,
                   all_urls, used_keywords, search_keywords, qi, urls, ui,
                   caller, retries, response, keywords, results, outfile,
                   fetchLog, doneOk, atCancel>>

\* time.sleep(2 ** retries); return self.make_request(url, retries + 1)
Backoff ==
    /\ pc = "backoff"
    /\ trace' = Append(trace, <<"backoff", BackoffDelay(retries)>>)
    /\ retries' = retries + 1
    /\ pc' = "request"
    /\ UNCHANGED <<base_keywords, query_char, max_retries, scraped_urls,
                   all_urls, used_keywords, search_keywords, qi, urls, ui,
                   caller, response, keywords, results, outfile, fetchLog,
                   doneOk, atCancel>>

-----------------------------------------------------------------------------
(* scrape_search_results and extract_keywords_from_urls.                   *)

\* search_keywords = self.generate_keyword_combinations()
Start ==
    /\ pc = "start"
    /\ search_keywords' = generate_keyword_combinations(base_keywords, query_char)
    /\ qi' = 1
    /\ pc' = "loop"
    /\ UNCHANGED <<base_keywords, query_char, max_retries, scraped_urls,
                   all_urls, used_keywords, urls, ui, caller, retries, response,
                   keywords, results, outfile, trace, fetchLog, doneOk,
                   atCancel>>

\* the head of `for i, keywords in enumerate(search_keywords, 1)`
NextQuery ==
    /\ pc = "loop"
    /\ IF qi > Len(search_keywords)
       THEN /\ pc' = "export"
            /\ UNCHANGED <<caller, retries, trace>>
       ELSE Call("search")
    /\ UNCHANGED <<base_keywords, query_char, max_retries, scraped_urls,
                   all_urls, used_keywords, search_keywords, qi, urls, ui,
                   response, keywords, results, outfile, fetchLog, doneOk,
                   atCancel>>

RecordNothing(au, found) == au

\* self.all_urls.append(urls)
RecordUrls(au, found) == Append(au, found)

\* make_request(search_url) has returned to scrape_search_results
SearchReturned ==
    /\ pc = "ret"
    /\ caller = "search"
    /\ IF ~response.ok
       THEN /\ qi' = qi + 1
            /\ pc' = "loop"
            /\ UNCHANGED <<all_urls, urls, ui>>
       ELSE /\ urls' = extract_google_urls(response.text)
            /\ all_urls' = RecordUrls(all_urls, urls')
            /\ ui' = 1
            /\ pc' = "urls"
            /\ qi' = qi
    /\ trace' = <<>>
    /\ UNCHANGED <<base_keywords, query_char, max_retries, scraped_urls,
                   used_keywords, search_keywords, caller, retries, response,
                   keywords, results, outfile, fetchLog, doneOk, atCancel>>

NeverVisited(url) == FALSE

\* if url in self.scraped_urls
Visited(url) == url \in scraped_urls

\* the head of `for url in urls`, up to the call of make_request(url)
NextUrl ==
    /\ pc = "urls"
    /\ IF ui > Len(urls)
       THEN /\ doneOk' = doneOk + 1
            /\ qi' = qi + 1
            /\ pc' = "loop"
            /\ UNCHANGED <<scraped_urls, ui, caller, retries, trace, fetchLog>>
       ELSE IF Visited(urls[ui])
       THEN /\ ui' = ui + 1
            /\ pc' = "urls"
            /\ UNCHANGED <<scraped_urls, qi, caller, retries, trace, fetchLog,
                           doneOk>>
       ELSE /\ scraped_urls' = scraped_urls \cup {urls[ui]}
            /\ fetchLog' = Append(fetchLog, urls[ui])
            /\ Call("target")
            /\ UNCHANGED <<qi, ui, doneOk>>
    /\ UNCHANGED <<base_keywords, query_char, max_retries, all_urls,
                   used_keywords, search_keywords, urls, response, keywords,
                   results, outfile, atCancel>>

TargetReturnedForgets ==
    /\ pc = "ret"
    /\ caller = "target"
    /\ IF ~response.ok
       THEN /\ scraped_urls' = scraped_urls \ {urls[ui]}
            /\ UNCHANGED <<keywords, used_keywords>>
       ELSE /\ keywords' = extract_meta_keywords(response.text)
            /\ used_keywords' = used_keywords \o keywords'
            /\ scraped_urls' = scraped_urls
    /\ ui' = ui + 1
    /\ pc' = "urls"
    /\ trace' = <<>>
    /\ UNCHANGED <<base_keywords, query_char, max_retries, all_urls,
                   search_keywords, qi, urls, caller, retries, response,
                   results, outfile, fetchLog, doneOk, atCancel>>

\* make_request(url) has returned to extract_keywords_from_urls
TargetReturned ==
    /\ pc = "ret"
    /\ caller = "target"
    /\ IF ~response.ok
       THEN UNCHANGED <<keywords, used_keywords>>
       ELSE /\ keywords' = extract_meta_keywords(response.text)
            /\ used_keywords' = used_keywords \o keywords'
    /\ ui' = ui + 1
    /\ pc' = "urls"
    /\ trace' = <<>>
    /\ UNCHANGED <<base_keywords, query_char, max_retries, scraped_urls,
                   all_urls, search_keywords, qi, urls, caller, retries, response,
                   results, outfile, fetchLog, doneOk, atCancel>>

-----------------------------------------------------------------------------
(* run: the export at the end, and the export after KeyboardInterrupt.     *)

\* the frames of scrape_search_results and its callees are gone
Unwind ==
    /\ search_keywords' = <<>>
    /\ qi' = 0
    /\ urls' = <<>>
    /\ ui' = 0
    /\ caller' = None
    /\ retries' = 0
    /\ response' = NoResponse
    /\ keywords' = <<>>
    /\ trace' = <<>>

ExportInPlace(at) ==
    /\ pc = at
    /\ \E order \in Orders(scraped_urls) : results' = BuildResults(order)
    /\ \E written \in BOOLEAN : outfile' = IF written THEN <<results'>> ELSE outfile
    /\ used_keywords' = UniqueKeywords(used_keywords, {})
    /\ pc' = "done"
    /\ Unwind
    /\ UNCHANGED <<base_keywords, query_char, max_retries, scraped_urls,
                   all_urls, fetchLog, doneOk, atCancel>>

\* export_results(); opening or writing the output file may fail
Export(at) ==
    /\ pc = at
    /\ \E order \in Orders(scraped_urls) : results' = BuildResults(order)
    /\ \E written \in BOOLEAN : outfile' = IF written THEN <<results'>> ELSE outfile
    /\ pc' = "done"
    /\ Unwind
    /\ UNCHANGED <<base_keywords, query_char, max_retries, scraped_urls,
                   all_urls, used_keywords, fetchLog, doneOk, atCancel>>

ExportResults == Export("export")

\* except KeyboardInterrupt: self.export_results()
ExportPartial == Export("interrupted")

\* KeyboardInterrupt raised inside the try block of run(): the stack is
\* unwound to the except clause
Interrupt ==
    /\ pc \in CrawlPcs
    /\ atCancel' = [cancelled |-> TRUE,
                    betweenQueries |-> pc = "loop",
                    all_urls |-> all_urls,
                    scraped_urls |-> scraped_urls,
                    used_keywords |-> used_keywords,
                    doneOk |-> doneOk]
    /\ pc' = "interrupted"
    /\ Unwind
    /\ UNCHANGED <<base_keywords, query_char, max_retries, scraped_urls,
                   all_urls, used_keywords, results, outfile, fetchLog,
                   doneOk>>

Next ==
    \/ Start
    \/ NextQuery
    \/ RequestCheck
    \/ GetOk
    \/ GetFail
    \/ Pace
    \/ Backoff
    \/ SearchReturned
    \/ NextUrl
    \/ TargetReturned
    \/ ExportResults
    \/ Interrupt
    \/ ExportPartial

Spec == Init /\ [][Next]_vars

\* run() when no KeyboardInterrupt is raised
NextUninterrupted ==
    \/ Start
    \/ NextQuery
    \/ RequestCheck
    \/ GetOk
    \/ GetFail
    \/ Pace
    \/ Backoff
    \/ SearchReturned
    \/ NextUrl
    \/ TargetReturned
    \/ ExportResults

ControlPoints == CrawlPcs \cup {"interrupted", "done"}

\* where run() stands: the control point and the position in `urls`
position == <<pc, ui>>

\* run() moves on.  Every step of NextUninterrupted changes the position
\* (PositionMoves below), and one is possible at every control point but
\* "done", so this is the step a fair run keeps taking.
Advance ==
    /\ pc # "done"
    /\ pc' \in ControlPoints
    /\ ui' \in 0..(ui + 1)
    /\ position' # position

\* run() is one sequential thread: every statement returns (the GET after
\* at most config.timeout, the sleeps after their delay), so the run moves
\* on until it has returned
SpecLive == Init /\ [][NextUninterrupted]_vars /\ WF_position(Advance)

-----------------------------------------------------------------------------
(* The generator alone, on every keyword list of up to MaxKw keywords,     *)
(* repeated and empty keywords included (the configuration is not          *)
(* validated).                                                             *)

KwTokens == {"a", "b", "c", "a+b", "b+a", ""}

JoinChars == {"+", " ", ""}

InitComb ==
    /\ base_keywords \in SeqsUpTo(KwTokens, MaxKw)
    /\ query_char \in JoinChars
    /\ max_retries = 1
    /\ pc = "start"
    /\ Fresh

SpecComb == InitComb /\ [][Start]_vars

-----------------------------------------------------------------------------
(* The result-page extractor alone: the search fetch of the first query    *)
(* has just returned a page of up to MaxAnchors links.                     *)

Hrefs ==
    { None,
      "/url?q=http://x.io/&sa=U",
      "/url?q=http://x.io/",
      "/url?q=https://Maps.Google.Com/&sa=U",
      "/url?q=ftp://x.io/",
      "/url?q=HTTPS://y.io/a&sa=U",
      "http://x.io/",
      "https://y.io/?ref=google.com",
      "https://www.google.com/maps",
      "https://WWW.GOOGLE.COM/",
      "https://lh3.googleusercontent.com/p",
      "http://:80/x",
      "httpx://x.io/",
      "/search?q=a" }

Anchors ==
    {[href |-> h, yuRUbf |-> FALSE, h3 |-> b] : h \in Hrefs, b \in BOOLEAN}
    \cup {[href |-> "http://x.io/", yuRUbf |-> TRUE, h3 |-> FALSE],
          [href |-> "/url?q=http://x.io/&sa=U", yuRUbf |-> TRUE, h3 |-> TRUE]}

InitLinks ==
    /\ base_keywords = <<"a", "b">>
    /\ query_char = "+"
    /\ max_retries = 1
    /\ scraped_urls = {}
    /\ all_urls = <<>>
    /\ used_keywords = <<>>
    /\ search_keywords = <<"a", "b">>
    /\ qi = 1
    /\ urls = <<>>
    /\ ui = 0
    /\ caller = "search"
    /\ retries = 0
    /\ \E page \in SeqsUpTo(Anchors, MaxAnchors) : response = Response(page)
    /\ keywords = <<>>
    /\ results = NoResults
    /\ outfile = NoFile
    /\ pc = "ret"
    /\ trace = << <<"GET", 0>>, <<"pace", 1>> >>
    /\ fetchLog = <<>>
    /\ doneOk = 0
    /\ atCancel = NotCancelled

SpecLinks == InitLinks /\ [][SearchReturned]_vars

-----------------------------------------------------------------------------
(* The target-page extractor alone: the fetch of the first URL of the      *)
(* first query has just returned a page of up to MaxTags meta elements.    *)

Contents == {"a, b; c", "a;b|c", " Go | go ", "solo", "a,, b ,", "  "}

MetaTags ==
    {Meta(n, c) : n \in {"keywords", "description", "author"}, c \in Contents}
    \cup {[name |-> "Keywords", property |-> None, content |-> "K;k"],
          [name |-> None, property |-> "keywords", content |-> "p,q"],
          [name |-> "keywords", property |-> "keywords", content |-> "n|p"],
          [name |-> "keywords", property |-> None, content |-> None]}

InitMeta ==
    /\ base_keywords = <<"a", "b">>
    /\ query_char = "+"
    /\ max_retries = 1
    /\ scraped_urls = {"http://x.io/"}
    /\ all_urls = << <<"http://x.io/">> >>
    /\ used_keywords = <<>>
    /\ search_keywords = <<"a", "b">>
    /\ qi = 1
    /\ urls = <<"http://x.io/">>
    /\ ui = 1
    /\ caller = "target"
    /\ retries = 0
    /\ \E page \in SeqsUpTo(MetaTags, MaxTags) : response = Response(page)
    /\ keywords = <<>>
    /\ results = NoResults
    /\ outfile = NoFile
    /\ pc = "ret"
    /\ trace = << <<"GET", 0>>, <<"pace", 1>> >>
    /\ fetchLog = <<"http://x.io/">>
    /\ doneOk = 0
    /\ atCancel = NotCancelled

SpecMeta == InitMeta /\ [][TargetReturned]_vars

-----------------------------------------------------------------------------
(* The export alone: both queries of a two-keyword run are done, the one   *)
(* page visited gave a keyword pool of up to MaxPool tokens.               *)

PoolTokens == {"Go", "go", "GO", "b"}

InitExport ==
    /\ base_keywords = <<"a", "b">>
    /\ query_char = "+"
    /\ max_retries = 1
    /\ scraped_urls = {"http://x.io/"}
    /\ all_urls = << <<"http://x.io/">>, <<>> >>
    /\ used_keywords \in SeqsUpTo(PoolTokens, MaxPool)
    /\ search_keywords = <<"a", "b">>
    /\ qi = 3
    /\ urls = <<>>
    /\ ui = 1
    /\ caller = "search"
    /\ retries = 0
    /\ response = Response(<<>>)
    /\ keywords = used_keywords
    /\ results = NoResults
    /\ outfile = NoFile
    /\ pc = "export"
    /\ trace = <<>>
    /\ fetchLog = <<"http://x.io/">>
    /\ doneOk = 2
    /\ atCancel = NotCancelled

SpecExport == InitExport /\ [][ExportResults]_vars

-----------------------------------------------------------------------------
(* Properties of a run (specification Spec).                               *)

Positions(seq, x) == {i \in 1..Len(seq) : seq[i] = x}

\* C1: a target-page fetch is started at most once per distinct URL, also
\* when the URL is among the results of several queries.
C1_FetchOncePerUrl ==
    \A u \in Range(fetchLog) : Cardinality(Positions(fetchLog, u)) = 1

C1_Witness ==
    /\ pc = "done"
    /\ \E i, j \in 1..Len(all_urls) :
          /\ i # j
          /\ \E u \in Range(all_urls[i]) \cap Range(all_urls[j]) :
                u \in Range(fetchLog)

\* C2 (as claimed): after a complete run the per-query history has one
\* entry per generated combination, and total_search_queries is 2^n - 2,
\* whether the search fetches succeeded or failed.
C2_OneEntryPerCombination ==
    (pc = "done" /\ ~atCancel.cancelled) =>
        /\ Len(results.urls_by_query) = Pow2(Len(base_keywords)) - 2
        /\ results.statistics.total_search_queries = Pow2(Len(base_keywords)) - 2

Events(kind) == {i \in 1..Len(trace) : trace[i][1] = kind}

RECURSIVE SumOfPowers(_)
SumOfPowers(n) == IF n = 0 THEN 0 ELSE SumOfPowers(n - 1) + Pow2(n - 1)

\* C3: a fetch that returns None has issued max_retries GETs, each of them
\* followed by a backoff, the k-th backoff lasting 2^(k-1), so the backoffs
\* sum to 2^0 + ... + 2^(max_retries - 1); it has made no pacing delay.
C3_ExhaustedFetch ==
    (pc = "ret" /\ ~response.ok) =>
        /\ retries = max_retries
        /\ Cardinality(Events("GET")) = max_retries
        /\ Cardinality(Events("backoff")) = max_retries
        /\ \A k \in 1..max_retries :
              /\ trace[2 * k - 1] = <<"GET", k - 1>>
              /\ trace[2 * k] = <<"backoff", Pow2(k - 1)>>
        /\ Sum([i \in 1..Len(trace) |->
                  IF trace[i][1] = "backoff" THEN trace[i][2] ELSE 0])
             = SumOfPowers(max_retries)
        /\ Events("pace") = {}

C3_Witness ==
    /\ pc = "ret"
    /\ ~response.ok
    /\ max_retries = 2
    /\ Len(trace) = 4

\* C4: the export made after KeyboardInterrupt is built from the state the
\* crawl had when the interrupt came; an interrupt that comes between two
\* queries, after k queries whose search fetch succeeded, exports
\* total_search_queries = k.
C4_PartialExport ==
    (pc = "done" /\ atCancel.cancelled) =>
        /\ results.urls_by_query = atCancel.all_urls
        /\ Range(results.all_unique_urls) = atCancel.scraped_urls
        /\ Len(results.all_unique_urls) = Cardinality(atCancel.scraped_urls)
        /\ results.keywords = UniqueKeywords(atCancel.used_keywords, {})
        /\ results.statistics =
              get_statistics(atCancel.all_urls, atCancel.scraped_urls,
                             atCancel.used_keywords)
        /\ results.statistics.total_search_queries
              \in {atCancel.doneOk, atCancel.doneOk + 1}
        /\ atCancel.betweenQueries =>
              results.statistics.total_search_queries = atCancel.doneOk

C4_Witness ==
    /\ pc = "done"
    /\ atCancel.cancelled
    /\ atCancel.betweenQueries
    /\ Len(base_keywords) = 3
    /\ atCancel.doneOk = 2
    /\ atCancel.scraped_urls # {}
    /\ atCancel.used_keywords # <<>>
    /\ results.statistics.total_search_queries = 2

-----------------------------------------------------------------------------
(* Properties of the generator (specification SpecComb).                   *)

DistinctNonEmpty(kws) ==
    /\ \A i \in 1..Len(kws) : kws[i] # ""
    /\ \A i, j \in 1..Len(kws) : i # j => kws[i] # kws[j]

\* the elements of a set of positions, in increasing order
RECURSIVE Ascending(_)
Ascending(S) ==
    IF S = {} THEN <<>>
    ELSE LET m == CHOOSE x \in S : \A y \in S : x <= y
         IN  <<m>> \o Ascending(S \ {m})

\* the query string of the keywords at the positions S, in base-list order
SubsetString(S) ==
    LET idx == Ascending(S)
    IN  Join(query_char, [i \in 1..Len(idx) |-> base_keywords[idx[i]]])

ProperSubsets == (SUBSET (1..Len(base_keywords))) \ {{}, 1..Len(base_keywords)}

\* C5: for n >= 2 distinct non-empty keywords the generator returns 2^n - 2
\* strings, one per non-empty proper subset (each string as often as there
\* are subsets that join to it), none equal to the join of the full list.
C5_ProperSubsets ==
    (pc = "loop" /\ Len(base_keywords) >= 2 /\ DistinctNonEmpty(base_keywords)) =>
        /\ Len(search_keywords) = Pow2(Len(base_keywords)) - 2
        /\ \A S \in ProperSubsets :
              Cardinality(Positions(search_keywords, SubsetString(S)))
                = Cardinality({T \in ProperSubsets : SubsetString(T) = SubsetString(S)})
        /\ \A p \in 1..Len(search_keywords) :
              search_keywords[p] # Join(query_char, base_keywords)

C5_Witness ==
    /\ pc = "loop"
    /\ base_keywords = <<"a", "b", "a+b">>
    /\ query_char = "+"
    /\ Len(search_keywords) = 6

\* the strictly increasing position tuples of the sizes 1 .. n-1
IncreasingTuples(n) ==
    {t \in UNION {[1..r -> 1..n] : r \in 1..(n - 1)} :
        \A i, j \in DOMAIN t : i < j => t[i] < t[j]}

\* u comes before t: it is shorter, or as long and lexicographically less
Before(u, t) ==
    \/ Len(u) < Len(t)
    \/ /\ Len(u) = Len(t)
       /\ \E k \in 1..Len(t) : u[k] < t[k] /\ \A j \in 1..(k - 1) : u[j] = t[j]

\* C6: the combinations come by subset size ascending and, within a size,
\* in lexicographic order of the positions in the base list, each joined in
\* base-list order; an empty or one-keyword list gives no combination.
C6_GenerationOrder ==
    pc = "loop" =>
        LET n    == Len(base_keywords)
            tups == IncreasingTuples(n)
        IN  /\ Len(search_keywords) = Cardinality(tups)
            /\ \A t \in tups :
                  search_keywords[1 + Cardinality({u \in tups : Before(u, t)})]
                    = Join(query_char, [i \in 1..Len(t) |-> base_keywords[t[i]]])
            /\ n <= 1 => search_keywords = <<>>
            /\ (base_keywords = <<"a", "b", "c">> /\ query_char = "+") =>
                  search_keywords = <<"a", "b", "c", "a+b", "a+c", "b+c">>

C6_Witness ==
    /\ pc = "loop"
    /\ base_keywords = <<"a", "b", "c">>
    /\ query_char = "+"
    /\ search_keywords = <<"a", "b", "c", "a+b", "a+c", "b+c">>

\* the place in the generated list of the combination at the positions t
Rank(t) == 1 + Cardinality({u \in IncreasingTuples(Len(base_keywords)) : Before(u, t)})

\* no two combinations of one size have the same query string
PairwiseDifferentPerSize ==
    \A t, u \in IncreasingTuples(Len(base_keywords)) :
        (Len(t) = Len(u) /\ t # u) =>
            search_keywords[Rank(t)] # search_keywords[Rank(u)]

\* C18 (as claimed): for distinct non-empty keywords and any join character
\* no two combinations of the same size give the same query string, also
\* when keywords contain the join character.
C18_DistinctWithinSize ==
    (pc = "loop" /\ DistinctNonEmpty(base_keywords) /\ Len(query_char) = 1) =>
        PairwiseDifferentPerSize

\* C18 (amended): for distinct non-empty keywords none of which contains
\* the join character, no two combinations of the same size give the same
\* query string.
C18_DistinctWithinSizeNoJoinChar ==
    (/\ pc = "loop"
     /\ DistinctNonEmpty(base_keywords)
     /\ Len(query_char) = 1
     /\ \A i \in 1..Len(base_keywords) : ~Contains(base_keywords[i], query_char)) =>
        PairwiseDifferentPerSize

C18_Witness ==
    /\ pc = "loop"
    /\ base_keywords = <<"a+b", "a", "b+a">>
    /\ query_char = " "
    /\ search_keywords = <<"a+b", "a", "b+a", "a+b a", "a+b b+a", "a b+a">>

-----------------------------------------------------------------------------
(* Properties of the export (specifications Spec and SpecExport).          *)

\* C7 (as claimed): statistics.unique_keywords counts the keyword tokens
\* that differ under case folding, so it equals keyword_count, the length
\* of the exported keyword list.
C7_UniqueKeywordsFolded ==
    pc = "done" =>
        /\ results.statistics.unique_keywords
             = Cardinality({Lower(k) : k \in Range(used_keywords)})
        /\ results.statistics.unique_keywords = results.keyword_count

\* the first position of the pool whose token equals k ignoring case
FirstFolded(pool, k) ==
    CHOOSE i \in 1..Len(pool) :
        /\ Lower(pool[i]) = Lower(k)
        /\ \A j \in 1..(i - 1) : Lower(pool[j]) # Lower(k)

\* C8: the exported keyword list holds, for each case-folded token of the
\* pool, its first occurrence with the casing of that occurrence, in the
\* order of those first occurrences: no two exported keywords are equal
\* ignoring case and every pool token has a match ignoring case.
C8_FirstOccurrenceCasing ==
    pc = "done" =>
        LET out == results.keywords
        IN  /\ \A i, j \in 1..Len(out) : i # j => Lower(out[i]) # Lower(out[j])
            /\ \A k \in Range(used_keywords) :
                  \E i \in 1..Len(out) : Lower(out[i]) = Lower(k)
            /\ \A i \in 1..Len(out) :
                  /\ out[i] \in Range(used_keywords)
                  /\ out[i] = used_keywords[FirstFolded(used_keywords, out[i])]
            /\ \A i, j \in 1..Len(out) :
                  i < j => FirstFolded(used_keywords, out[i])
                             < FirstFolded(used_keywords, out[j])
            /\ results.keyword_count = Len(out)
            /\ used_keywords = <<"Go", "go", "GO">> => out = <<"Go">>

C8_Witness ==
    /\ pc = "done"
    /\ used_keywords = <<"Go", "go", "GO">>
    /\ results.keywords = <<"Go">>

-----------------------------------------------------------------------------
(* Properties of the target-page extractor (specification SpecMeta).       *)

DelimiterChars == {",", ";", "|"}

\* the pieces of s between delimiter characters of ds
RECURSIVE Pieces(_, _)
Pieces(s, ds) ==
    LET i == FirstOf(s, ds, 1)
    IN  IF i > Len(s) THEN <<s>>
        ELSE <<SubSeq(s, 1, i - 1)>> \o Pieces(From(s, i + 1), ds)

\* the pieces of a content cut at the characters of ds, trimmed, the empty
\* ones dropped
Tokens(content, ds) ==
    LET ps == Pieces(Strip(IF content = None THEN "" ELSE content), ds)
    IN  SelectSeq([i \in 1..Len(ps) |-> Strip(ps[i])], LAMBDA t : t # "")

\* the tags the four selectors find, selector by selector
Found(page) ==
    Flatten([k \in 1..Len(MetaSelectors) |-> SelectMeta(page, MetaSelectors[k])])

\* C9 (as claimed): every keyword-bearing content is split at all of its
\* delimiter characters, the pieces trimmed and the empty ones dropped, in
\* document order; no returned token contains a delimiter character, and
\* "a, b; c" gives a, b, c.
C9_SplitAtAllDelimiters ==
    (pc = "urls" /\ response.ok) =>
        LET tags == Found(response.text)
        IN  /\ keywords = Flatten([i \in 1..Len(tags) |->
                                      Tokens(tags[i].content, DelimiterChars)])
            /\ \A i \in 1..Len(keywords) :
                  Chars(keywords[i]) \cap DelimiterChars = {}
            /\ response.text = <<Meta("keywords", "a, b; c")>> =>
                  keywords = <<"a", "b", "c">>

\* the delimiter characters a content is split at: the first of comma,
\* semicolon, pipe that occurs in it, none when none occurs
SplitChars(content) ==
    LET c == IF content = None THEN "" ELSE content
    IN  IF "," \in Chars(c) THEN {","}
        ELSE IF ";" \in Chars(c) THEN {";"}
        ELSE IF "|" \in Chars(c) THEN {"|"}
        ELSE {}

\* C9 (amended): every keyword-bearing content is split at the occurrences
\* of one delimiter only, the first of comma, semicolon, pipe that occurs
\* in it; the pieces are trimmed and the empty ones dropped, in document
\* order; "a, b; c" gives "a" and "b; c".
C9_SplitAtFirstDelimiterType ==
    (pc = "urls" /\ response.ok) =>
        LET tags == Found(response.text)
        IN  /\ keywords = Flatten([i \in 1..Len(tags) |->
                                      Tokens(tags[i].content,
                                             SplitChars(tags[i].content))])
            /\ \A i \in 1..Len(keywords) :
                  keywords[i] # "" /\ Strip(keywords[i]) = keywords[i]
            /\ response.text = <<Meta("keywords", "a, b; c")>> =>
                  keywords = <<"a", "b; c">>

C9_Witness ==
    /\ pc = "urls"
    /\ response = Response(<<Meta("keywords", "a, b; c")>>)
    /\ keywords = <<"a", "b; c">>
    /\ used_keywords = <<"a", "b; c">>

-----------------------------------------------------------------------------
(* Properties of the result-page extractor (specification SpecLinks).      *)

\* C10 (as claimed): no returned URL has a host that contains google.com
\* or googleusercontent.com, compared without regard to case, and every
\* returned URL has scheme http or https and a non-empty host.
C10_ForeignHttpHosts ==
    (pc = "urls" /\ response.ok) =>
        \A i \in 1..Len(urls) :
            /\ ~Contains(hostname(urls[i]), "google.com")
            /\ ~Contains(hostname(urls[i]), "googleusercontent.com")
            /\ urlparse(urls[i]).scheme \in {"http", "https"}
            /\ hostname(urls[i]) # ""

\* the first position of x in seq
FirstPosition(seq, x) == CHOOSE i \in Positions(seq, x) : \A j \in Positions(seq, x) : i <= j

\* C11: the returned URLs are pairwise different strings, also when several
\* selector passes find the same link, and they come in the order in which
\* the candidates were first seen, pass by pass.
C11_NoDuplicatesFirstSeen ==
    (pc = "urls" /\ response.ok) =>
        LET cands == AllCandidates(response.text, 1)
        IN  /\ \A i, j \in 1..Len(urls) : i # j => urls[i] # urls[j]
            /\ Range(urls) \subseteq Range(cands)
            /\ \A i, j \in 1..Len(urls) :
                  i < j => FirstPosition(cands, urls[i]) < FirstPosition(cands, urls[j])

C11_Witness ==
    /\ pc = "urls"
    /\ response.ok
    /\ response.text = <<[href |-> "http://x.io/", yuRUbf |-> FALSE, h3 |-> TRUE],
                         [href |-> "/url?q=HTTPS://y.io/a&sa=U", yuRUbf |-> FALSE,
                          h3 |-> FALSE]>>
    /\ AllCandidates(response.text, 1) = <<"HTTPS://y.io/a", "http://x.io/", "http://x.io/">>
    /\ urls = <<"HTTPS://y.io/a", "http://x.io/">>

\* the three validation rules as stated: scheme http or https, a non-empty
\* host, and a host containing neither domain of the search engine
PassesValidationRules(u) ==
    /\ urlparse(u).scheme \in {"http", "https"}
    /\ hostname(u) # ""
    /\ ~Contains(hostname(u), "google.com")
    /\ ~Contains(hostname(u), "googleusercontent.com")

\* the URL a link proposes: the destination of a redirect-wrapped link, or
\* the href of a direct absolute link
Proposed(href) ==
    IF StartsWith(href, "/url?q=")
    THEN LET actual == From(href, 8)
             cut    == Find(actual, "&sa=")
         IN  IF cut # 0 THEN SubSeq(actual, 1, cut - 1) ELSE actual
    ELSE href

\* C14 (as claimed): a candidate URL of the page is returned if and only
\* if it passes the three validation rules; a direct link to a foreign host
\* whose query string contains google.com is therefore returned.
C14_AcceptedIffValid ==
    (pc = "urls" /\ response.ok) =>
        \A k \in 1..Len(Selectors) :
            \A a \in Range(Select(response.text, Selectors[k])) :
                (a.href # None /\ (StartsWith(a.href, "/url?q=") \/ StartsWith(a.href, "http")))
                    => (Proposed(a.href) \in Range(urls)
                            <=> PassesValidationRules(Proposed(a.href)))

-----------------------------------------------------------------------------
(* Properties of the fetcher (specification Spec).                         *)

\* C12 (as claimed): a fetch issues its GET before it tests exhaustion, so
\* every fetch that has returned has issued at least one GET, also with
\* max_retries = 0, and every backoff is followed by another GET: a fetch
\* that returns None ends with a failed GET, not with a backoff.
C12_GetBeforeExhaustionTest ==
    pc = "ret" =>
        /\ Events("GET") # {}
        /\ \A i \in Events("backoff") : i < Len(trace) /\ trace[i + 1][1] = "GET"
        /\ ~response.ok => trace[Len(trace)][1] = "GET"

\* C13: a fetch that returns a body has made exactly one pacing delay,
\* right after its successful GET and as its last step; the failed GETs
\* before it were each followed by a backoff of 2^0, 2^1, ...; a fetch that
\* returns None has made no pacing delay.
C13_OnePacingAfterSuccess ==
    /\ \A i \in Events("pace") :
          i = Len(trace) /\ i > 1 /\ trace[i - 1][1] = "GET"
    /\ (pc = "ret" /\ response.ok) =>
          /\ Cardinality(Events("pace")) = 1
          /\ Len(trace) = 2 * retries + 2
          /\ trace[Len(trace) - 1] = <<"GET", retries>>
          /\ \A k \in 1..retries :
                /\ trace[2 * k - 1] = <<"GET", k - 1>>
                /\ trace[2 * k] = <<"backoff", Pow2(k - 1)>>
    /\ (pc = "ret" /\ ~response.ok) => Events("pace") = {}

C13_Witness ==
    /\ pc = "ret"
    /\ response.ok
    /\ retries = 1
    /\ trace = << <<"GET", 0>>, <<"backoff", 1>>, <<"GET", 1>>, <<"pace", 1>> >>

-----------------------------------------------------------------------------
(* Properties of the crawl loop (specification Spec).                      *)

\* the step that handles a target fetch which ended in terminal failure
FailedTargetStep ==
    (pc = "ret" /\ caller = "target" /\ ~response.ok /\ pc' # "interrupted") =>
        /\ used_keywords' = used_keywords
        /\ all_urls' = all_urls
        /\ scraped_urls' = scraped_urls
        /\ urls[ui] \in scraped_urls'
        /\ urls' = urls /\ qi' = qi /\ ui' = ui + 1
        /\ pc' = "urls"

\* C15: when a target fetch ends in terminal failure the keyword pool and
\* the per-query lists are unchanged and the loop goes on with the next URL
\* of the same query; the URL stays in the visited set, so it is fetched
\* only that once in the whole run, and the export counts and lists it.
C15_FailedTargetSkipped ==
    /\ [][FailedTargetStep]_vars
    /\ [](/\ (pc = "urls" /\ ~response.ok) =>
                /\ ui >= 2
                /\ urls[ui - 1] \in scraped_urls
                /\ urls[ui - 1] = fetchLog[Len(fetchLog)]
          /\ \A i, j \in 1..Len(fetchLog) : i # j => fetchLog[i] # fetchLog[j]
          /\ pc = "done" =>
                /\ Range(fetchLog) \subseteq Range(results.all_unique_urls)
                /\ results.statistics.unique_urls_scraped = Len(fetchLog))

C15_Witness ==
    /\ pc = "urls"
    /\ caller = "target"
    /\ ~response.ok
    /\ retries = max_retries
    /\ max_retries >= 1
    /\ ui = 2
    /\ Len(urls) = 2
    /\ urls[1] \in scraped_urls
    /\ fetchLog = <<urls[1]>>
    /\ used_keywords = <<>>

-----------------------------------------------------------------------------
(* Properties of the export (specification Spec).                          *)

\* the parts of a snapshot that export_results computes from the crawl state
SnapshotOf(au, su, uk) ==
    [statistics    |-> get_statistics(au, su, uk),
     urls_by_query |-> au,
     keywords      |-> UniqueKeywords(uk, {})]

\* a step of export_results, whether or not the file could be written
ExportStep ==
    (pc \in {"export", "interrupted"} /\ pc' = "done") =>
        /\ scraped_urls' = scraped_urls
        /\ all_urls' = all_urls
        /\ used_keywords' = used_keywords
        /\ <<base_keywords, query_char, max_retries>>'
              = <<base_keywords, query_char, max_retries>>

\* C16: export_results leaves scraped_urls, all_urls, used_keywords and the
\* configuration unchanged, also when writing the file fails, so the
\* statistics, per-query lists and keyword list of the snapshot it built
\* are those a second call on the state it leaves would build.
C16_ExportReadOnly ==
    /\ [][ExportStep]_vars
    /\ [](pc = "done" =>
            /\ results.statistics
                  = SnapshotOf(all_urls, scraped_urls, used_keywords).statistics
            /\ results.urls_by_query
                  = SnapshotOf(all_urls, scraped_urls, used_keywords).urls_by_query
            /\ results.keywords
                  = SnapshotOf(all_urls, scraped_urls, used_keywords).keywords
            /\ results.keyword_count = Len(results.keywords))

\* an export whose file could not be written, of a pool with a repeated keyword
C16_Witness ==
    /\ pc = "done"
    /\ outfile = NoFile
    /\ used_keywords = <<"Go", "go">>
    /\ results.keywords = <<"Go">>
    /\ results.statistics.total_keywords_extracted = 2

-----------------------------------------------------------------------------
(* Termination of a run that is not cancelled (specification SpecLive).    *)

\* the loop over the combinations: a search fetch is started only for the
\* combination at position qi, and qi moves on by one each time the loop
\* head is reached again
CombinationStep ==
    /\ (pc = "loop" /\ pc' = "request") =>
          (caller' = "search" /\ qi \in 1..Len(search_keywords) /\ qi' = qi)
    /\ (pc # "loop" /\ pc' = "loop") =>
          qi' = (IF pc = "start" THEN 1 ELSE qi + 1)
    /\ (pc' \notin {"loop", "done"}) => (pc = "start" \/ qi' = qi)
    /\ (pc = "loop" /\ pc' = "export") => qi = Len(search_keywords) + 1

\* export_results runs once: from the end of the loop, and never again
ExportOnceStep ==
    /\ pc' = "done" => pc \in {"export", "done"}
    /\ pc = "done" => pc' = "done"

\* every step of the run is a step forward
PositionMoves == position' # position

\* C17: a run that is not cancelled terminates, whatever the pages hold and
\* whichever GETs fail: every fetch issues at most max_retries GETs, the
\* combinations are searched one after the other, each once, and
\* export_results is reached, once.
C17_RunTerminates ==
    /\ <>(pc = "done")
    /\ [](Cardinality(Events("GET")) <= max_retries)
    /\ [][CombinationStep]_vars
    /\ [][ExportOnceStep]_vars
    /\ [][PositionMoves]_vars

C17_Witness ==
    /\ pc = "done"
    /\ ~atCancel.cancelled
    /\ Len(base_keywords) = 3
    /\ max_retries = 2
    /\ Len(all_urls) >= 1
    /\ Len(all_urls) < 6
    /\ fetchLog # <<>>

-----------------------------------------------------------------------------
(* Properties of the visited set (specification Spec).                     *)

\* C19 (as claimed): the export lists the visited URLs in the order in
\* which they were first visited, so all_unique_urls is determined by the
\* fetch outcomes and page contents of the run.
C19_VisitOrderExported ==
    pc = "done" => results.all_unique_urls = fetchLog

\* every URL of the visited set occurs in a recorded per-query list
VisitedWereFound ==
    \A u \in scraped_urls : \E i \in 1..Len(all_urls) : u \in Range(all_urls[i])

\* C20: in every state of a run, cancelled or not, the visited set has only
\* grown and each of its URLs occurs in a recorded per-query list; every
\* export therefore has unique_urls_scraped <= total_urls_found and
\* keyword_count <= total_keywords_extracted.
C20_VisitedGrowsWithinFound ==
    /\ [][scraped_urls \subseteq scraped_urls']_vars
    /\ [](VisitedWereFound)
    /\ [](pc = "done" =>
            /\ results.statistics.unique_urls_scraped
                  <= results.statistics.total_urls_found
            /\ results.keyword_count
                  <= results.statistics.total_keywords_extracted)

C20_Witness ==
    /\ pc = "done"
    /\ atCancel.cancelled
    /\ Cardinality(scraped_urls) = 2
    /\ results.statistics.unique_urls_scraped = 2
    /\ results.statistics.total_urls_found = 3
    /\ results.keyword_count = 1
    /\ results.statistics.total_keywords_extracted = 2

=============================================================================
